---- MODULE Spec2Model ----
(***************************************************************************)
(* Frame-to-frame mesh correspondence of MotionTracker                     *)
(* (src/src/MotionTracker.cpp).  The tracker keeps the vector currMeshes;  *)
(* every frame alignMeshes pairs it with the freshly detected meshes       *)
(* through the Hungarian solver and updates, ages or extends it.           *)
(*                                                                         *)
(* Indices of meshes are 0-based as in the code; TLA+ sequences are        *)
(* 1-based, so currMeshes[i0] of the code is currMeshes[i0 + 1] here.      *)
(* Distances are in thousandths of a pixel.                                *)
(***************************************************************************)
EXTENDS Integers, Sequences, FiniteSets, TLC

VARIABLES
  debug,          \* MotionTracker::debug
  currMeshes,     \* MotionTracker::currMeshes
  pc,             \* position of the pipeline thread
  newMeshes,      \* alignMeshes: parameter newMeshes
  maxDist,        \* alignMeshes: parameter maxDist
  N0,             \* alignMeshes: local N0
  m,              \* alignMeshes: local cost matrix m
  match,          \* alignMeshes: local match (solver output)
  k,              \* alignMeshes: position of the loop over match
  nFreshNew,      \* alignMeshes: local counter
  nAbsentOld,     \* alignMeshes: local counter
  nUpdated,       \* alignMeshes: local counter
  pendingForAdd,  \* alignMeshes: local queue
  out,            \* lines written to cout by the current call
  solved,         \* history: the current call invoked the solver
  pre,            \* history: currMeshes when the current call started
  absentRun,      \* history: per entry, calls in a row that left it unmatched
  emptyFrames,    \* history: calls in a row that delivered no mesh
  emptyBase,      \* history: currMeshes when that row of calls started
  nextId,         \* history: number of meshes detected so far, plus one
  frames,         \* history: number of frames delivered so far
  log,            \* comparison: the call the first tracker just finished
                  \*   (inputs, solver's answer, outcome), or empty
  pass,           \* comparison: the tracker the variables above belong to
  other           \* comparison: the registry of the tracker at rest

vars == << debug, currMeshes, pc, newMeshes, maxDist, N0, m, match, k,
           nFreshNew, nAbsentOld, nUpdated, pendingForAdd, out, solved,
           pre, absentRun, emptyFrames, emptyBase, nextId, frames,
           log, pass, other >>

\* the variables of the comparison of two trackers
rvars == << log, pass, other >>

(***************************************************************************)
(* Bounds of the model.                                                    *)
(***************************************************************************)
MaxNew    == 2   \* meshes detected in one frame
MaxIds    == 4   \* meshes detected in the whole session
MaxFrames == 3   \* frames of the session
NPoints   == 2   \* distinct centroid positions

\* Stand-in for numeric_limits<float>::max(): larger than the sum of all
\* real distances of any matrix of the model.
FLT_MAX == 1000000

PointList == << <<0, 0>>, <<3, 0>>, <<0, 4>>, <<3, 4>>, <<6, 8>>, <<6, 0>> >>
Points == { PointList[i] : i \in 1..NPoints }

\* im.size[0] of the frames
Heights == {3, 6}

(***************************************************************************)
(* Helpers.                                                                *)
(***************************************************************************)
max(a, b) == IF a >= b THEN a ELSE b
min(a, b) == IF a <= b THEN a ELSE b

RECURSIVE SumTo(_, _)
SumTo(f, n) == IF n = 0 THEN 0 ELSE f[n - 1] + SumTo(f, n - 1)

\* largest r with r * r <= n
isqrt(n) == CHOOSE r \in 0..n : r * r <= n /\ (r + 1) * (r + 1) > n

\* Euclidean distance of two points, in thousandths
_dist(c0, c1) ==
  LET dx == c0[1] - c1[1]
      dy == c0[2] - c1[2]
  IN  1000 * isqrt(dx * dx + dy * dy)

\* A mesh: its point set (abstracted to the identity of the detection that
\* produced it), its centroid and its absence counter.
Mesh(id, c) == [points |-> id, centroid |-> c, lengthOfAbsence |-> 0]

\* MeshObject::centroid()
centroid(mesh) == mesh.centroid

\* MeshObject::update(): take over the geometry of the new mesh and reset
\* the absence counter.
update(old, new) ==
  [points |-> new.points, centroid |-> new.centroid, lengthOfAbsence |-> 0]

\* mesh.split(): the meshes of one frame, n of them, numbered from id
Detections(n, id) ==
  { [j \in 1..n |-> Mesh(id + j - 1, cs[j])] : cs \in [1..n -> Points] }

(***************************************************************************)
(* alignMeshes, lines 87-117: sizes and cost matrix.                       *)
(***************************************************************************)
PadSize(n0, n1) == max(n0, n1)

\* The matrix as a list of rows; at(mat, row, col) is m.at<float>(row, col).
at(mat, row, col) == mat[row + 1][col + 1]

\* CostMatrix with the distances never stored: every cell keeps FLT_MAX
CostMatrixUnfilled(cur, new) ==
  LET n == max(Len(cur), Len(new))
  IN  [row \in 1..n |-> [col \in 1..n |-> FLT_MAX]]

\* CostMatrix with the two indices of the store swapped: rows are new meshes
CostMatrixTransposed(cur, new) ==
  LET n == max(Len(cur), Len(new))
  IN  [row \in 1..n |-> [col \in 1..n |->
         IF row <= Len(new) /\ col <= Len(cur)
           THEN _dist(centroid(cur[col]), centroid(new[row]))
           ELSE FLT_MAX]]

\* Rows are old meshes, columns are new meshes.  Every cell starts at
\* FLT_MAX; the double loop overwrites cell (j, i) for each old centroid j
\* and each new centroid i.
CostMatrix(cur, new) ==
  LET n == PadSize(Len(cur), Len(new))
  IN  [row \in 1..n |-> [col \in 1..n |->
         IF row <= Len(cur) /\ col <= Len(new)
           THEN _dist(centroid(cur[row]), centroid(new[col]))
           ELSE FLT_MAX]]

(***************************************************************************)
(* Hungarian::optimiseMinima: a perfect matching of rows and columns of    *)
(* minimum total cost, returned as a list of (row, column) pairs in some   *)
(* order.                                                                  *)
(***************************************************************************)
Perms(n) == { p \in [0..n - 1 -> 0..n - 1] :
                \A a, b \in 0..n - 1 : p[a] = p[b] => a = b }

Cost(mat, p) == SumTo([r \in 0..Len(mat) - 1 |-> at(mat, r, p[r])], Len(mat))

MinPerms(mat) ==
  LET ps == Perms(Len(mat))
  IN  { p \in ps : \A q \in ps : Cost(mat, p) <= Cost(mat, q) }

\* the lists that hold every pair of p exactly once
Orders(p, n) ==
  { [j \in 1..n |-> <<o[j - 1], p[o[j - 1]]>>] : o \in Perms(n) }

optimiseMinima(mat) ==
  UNION { Orders(p, Len(mat)) : p \in MinPerms(mat) }

(***************************************************************************)
(* alignMeshes, lines 134-161: classification of one couple.               *)
(***************************************************************************)
\* Branch with || for && in the first test: every padded couple is ignored
BranchOr(i0, i1, n0, n1) ==
  IF i0 >= n0 \/ i1 >= n1 THEN "none"
  ELSE "match"

\* Branch with the row compared to N1 in the second test
BranchTypo(i0, i1, n0, n1) ==
  IF i0 >= n0 /\ i1 >= n1 THEN "none"
  ELSE IF i0 >= n1 /\ i1 < n1 THEN "new"
  ELSE IF i1 >= n1 THEN "absent"
  ELSE "match"

\* Branch with maxDist applied: a real couple too far apart is no match,
\* the old entry is aged and the new mesh is dropped
BranchBounded(i0, i1, n0, n1) ==
  IF i0 >= n0 /\ i1 >= n1 THEN "none"
  ELSE IF i0 >= n0 THEN "new"
  ELSE IF i1 >= n1 THEN "absent"
  ELSE IF at(m, i0, i1) > maxDist THEN "absent"
  ELSE "match"

Branch(i0, i1, n0, n1) ==
  IF i0 >= n0 /\ i1 >= n1 THEN "none"
  ELSE IF i0 >= n0 THEN "new"
  ELSE IF i1 >= n1 THEN "absent"
  ELSE "match"

\* markAbsent with a ceiling on the counter
markAbsentCapped(mesh) ==
  [mesh EXCEPT !.lengthOfAbsence = IF @ >= 1 THEN @ ELSE @ + 1]

\* markAbsent with the increment inside the debug block
markAbsentDebug(mesh) ==
  IF debug THEN [mesh EXCEPT !.lengthOfAbsence = @ + 1] ELSE mesh

\* markAbsent with = 1 for ++
markAbsentSet(mesh) == [mesh EXCEPT !.lengthOfAbsence = 1]

\* line 152: currMeshes[i0].lengthOfAbsence++
markAbsent(mesh) == [mesh EXCEPT !.lengthOfAbsence = @ + 1]

\* clone without the copy: the registry stays empty
cloneNothing(cur, new) == cur

\* clone with a front_inserter: the new meshes end up reversed
cloneFront(cur, new) == [j \in 1..Len(new) |-> new[Len(new) + 1 - j]] \o cur

\* lines 81-85: copy(newMeshes.begin(), newMeshes.end(), back_inserter(...))
clone(cur, new) == cur \o new

\* pushPending with the mesh inserted at the front of the registry
pushPendingFront(cur, new, queue) == << new[Head(queue) + 1] >> \o cur

\* lines 173-175: the mesh the queue's front names goes to the back
pushPending(cur, new, queue) == Append(cur, new[Head(queue) + 1])

(***************************************************************************)
(* State after construction: nothing tracked, no call in progress.         *)
(***************************************************************************)
NoMatrix == << >>

Init ==
  /\ debug \in BOOLEAN
  /\ currMeshes = << >>
  /\ pc = "idle"
  /\ newMeshes = << >>
  /\ maxDist = 0
  /\ N0 = 0
  /\ m = NoMatrix
  /\ match = << >>
  /\ k = 0
  /\ nFreshNew = 0
  /\ nAbsentOld = 0
  /\ nUpdated = 0
  /\ pendingForAdd = << >>
  /\ out = << >>
  /\ solved = FALSE
  /\ pre = << >>
  /\ absentRun = << >>
  /\ emptyFrames = 0
  /\ emptyBase = << >>
  /\ nextId = 1
  /\ frames = 0
  /\ log = << >>
  /\ pass = 1
  /\ other = [currMeshes |-> << >>, absentRun |-> << >>, emptyFrames |-> 0,
              emptyBase |-> << >>]

\* trackMotion, line 55
maxDisplacement(rows) == rows * 833

\* lines 59-60 and 74-77
EntryLines(n0, n1) ==
  IF debug THEN << <<"meshes splitted", n1>>, <<"Aligning mesh", n0, n1>> >>
  ELSE << >>

\* lines 119-122
MatrixLines(n) == IF debug THEN << <<"M", n, n>> >> ELSE << >>

\* lines 163-168
CountLines ==
  IF debug THEN << <<"updated", nUpdated>>, <<"absent", nAbsentOld>>,
                   <<"new", nFreshNew>> >>
  ELSE << >>

\* a frame arrives: trackMotion up to the call of alignMeshes
FrameGuard(n1) ==
  /\ pc = "idle"
  /\ frames < MaxFrames
  /\ n1 \in 0..MaxNew
  /\ nextId + n1 - 1 <= MaxIds

\* alignMeshes on an empty registry, lines 72-85
Bootstrap ==
  \E n1 \in 0..MaxNew, rows \in Heights :
    /\ FrameGuard(n1)
    /\ Len(currMeshes) = 0
    /\ \E new \in Detections(n1, nextId) :
         /\ newMeshes' = new
         /\ currMeshes' = clone(currMeshes, new)
    /\ maxDist' = maxDisplacement(rows)
    /\ out' = EntryLines(0, n1)
    /\ pre' = currMeshes
    /\ solved' = FALSE
    /\ pc' = "return"
    /\ nextId' = nextId + n1
    /\ frames' = frames + 1
    /\ UNCHANGED << debug, N0, m, match, k, nFreshNew, nAbsentOld, nUpdated,
                    pendingForAdd, absentRun, emptyFrames, emptyBase >>

\* alignMeshes on a non-empty registry, lines 72-133, with the solver's
\* answer sol
AlignBegin(new, md, sol) ==
  /\ newMeshes' = new
  /\ maxDist' = md
  /\ N0' = Len(currMeshes)
  /\ m' = CostMatrix(currMeshes, new)
  /\ match' = sol
  /\ k' = 1
  /\ nFreshNew' = 0
  /\ nAbsentOld' = 0
  /\ nUpdated' = 0
  /\ pendingForAdd' = << >>
  /\ out' = EntryLines(Len(currMeshes), Len(new))
            \o MatrixLines(PadSize(Len(currMeshes), Len(new)))
  /\ solved' = TRUE
  /\ pre' = currMeshes
  /\ emptyFrames' = IF Len(new) = 0 THEN emptyFrames + 1 ELSE 0
  /\ emptyBase' = IF Len(new) # 0 THEN << >>
                  ELSE IF emptyFrames = 0 THEN currMeshes ELSE emptyBase
  /\ pc' = "classify"
  /\ nextId' = nextId + Len(new)
  /\ frames' = frames + 1
  /\ UNCHANGED << debug, currMeshes, absentRun >>

Align ==
  \E n1 \in 0..MaxNew, rows \in Heights :
    /\ FrameGuard(n1)
    /\ Len(currMeshes) # 0
    /\ \E new \in Detections(n1, nextId) :
         \E sol \in optimiseMinima(CostMatrix(currMeshes, new)) :
           AlignBegin(new, maxDisplacement(rows), sol)

\* Classify with the push_back inside the loop: a new mesh is appended the
\* moment its couple is classified and nothing is queued
ClassifyEager ==
  /\ pc = "classify"
  /\ k <= Len(match)
  /\ LET i0 == match[k][1]
         i1 == match[k][2]
         b  == Branch(i0, i1, N0, Len(newMeshes))
     IN  /\ nFreshNew' = IF b = "new" THEN nFreshNew + 1 ELSE nFreshNew
         /\ nAbsentOld' = IF b = "absent" THEN nAbsentOld + 1 ELSE nAbsentOld
         /\ nUpdated' = IF b = "match" THEN nUpdated + 1 ELSE nUpdated
         /\ currMeshes' =
              IF b = "absent"
                THEN [currMeshes EXCEPT ![i0 + 1] = markAbsent(@)]
              ELSE IF b = "match"
                THEN [currMeshes EXCEPT ![i0 + 1] = update(@, newMeshes[i1 + 1])]
              ELSE IF b = "new"
                THEN Append(currMeshes, newMeshes[i1 + 1])
              ELSE currMeshes
  /\ k' = k + 1
  /\ UNCHANGED << debug, pc, newMeshes, maxDist, N0, m, match, out, solved,
                  pre, absentRun, emptyFrames, emptyBase, nextId, frames,
                  pendingForAdd >>

\* one turn of the loop over match, lines 134-161
Classify ==
  /\ pc = "classify"
  /\ k <= Len(match)
  /\ LET i0 == match[k][1]
         i1 == match[k][2]
         b  == Branch(i0, i1, N0, Len(newMeshes))
     IN  /\ nFreshNew' = IF b = "new" THEN nFreshNew + 1 ELSE nFreshNew
         /\ pendingForAdd' = IF b = "new" THEN Append(pendingForAdd, i1)
                             ELSE pendingForAdd
         /\ nAbsentOld' = IF b = "absent" THEN nAbsentOld + 1 ELSE nAbsentOld
         /\ nUpdated' = IF b = "match" THEN nUpdated + 1 ELSE nUpdated
         /\ currMeshes' =
              IF b = "absent"
                THEN [currMeshes EXCEPT ![i0 + 1] = markAbsent(@)]
              ELSE IF b = "match"
                THEN [currMeshes EXCEPT ![i0 + 1] = update(@, newMeshes[i1 + 1])]
              ELSE currMeshes
  /\ k' = k + 1
  /\ UNCHANGED << debug, pc, newMeshes, maxDist, N0, m, match, out, solved,
                  pre, absentRun, emptyFrames, emptyBase, nextId, frames >>

\* the loop is over: report the counters, lines 163-168
Report ==
  /\ pc = "classify"
  /\ k > Len(match)
  /\ out' = out \o CountLines
  /\ pc' = "add"
  /\ UNCHANGED << debug, currMeshes, newMeshes, maxDist, N0, m, match, k,
                  nFreshNew, nAbsentOld, nUpdated, pendingForAdd, solved,
                  pre, absentRun, emptyFrames, emptyBase, nextId, frames >>

\* one turn of the loop over pendingForAdd, lines 171-176
AddPending ==
  /\ pc = "add"
  /\ pendingForAdd # << >>
  /\ currMeshes' = pushPending(currMeshes, newMeshes, pendingForAdd)
  /\ pendingForAdd' = Tail(pendingForAdd)
  /\ UNCHANGED << debug, pc, newMeshes, maxDist, N0, m, match, k, nFreshNew,
                  nAbsentOld, nUpdated, out, solved, pre, absentRun,
                  emptyFrames, emptyBase, nextId, frames >>

\* the queue is empty: alignMeshes is about to return
Finish ==
  /\ pc = "add"
  /\ pendingForAdd = << >>
  /\ pc' = "return"
  /\ UNCHANGED << debug, currMeshes, newMeshes, maxDist, N0, m, match, k,
                  nFreshNew, nAbsentOld, nUpdated, pendingForAdd, out, solved,
                  pre, absentRun, emptyFrames, emptyBase, nextId, frames >>

\* an original entry i (1-based) was paired with a real new mesh
Matched(i) ==
  \E j \in 1..Len(match) :
    match[j][1] = i - 1 /\ match[j][2] < Len(newMeshes)

\* alignMeshes returns, its locals die; the history of absences is brought
\* up to date from the solver's answer
Return ==
  /\ pc = "return"
  /\ pc' = "idle"
  /\ absentRun' = [i \in 1..Len(currMeshes) |->
                     IF i <= Len(pre) /\ i <= Len(absentRun)
                       THEN IF Matched(i) THEN 0 ELSE absentRun[i] + 1
                       ELSE 0]
  /\ newMeshes' = << >>
  /\ maxDist' = 0
  /\ N0' = 0
  /\ m' = NoMatrix
  /\ match' = << >>
  /\ k' = 0
  /\ nFreshNew' = 0
  /\ nAbsentOld' = 0
  /\ nUpdated' = 0
  /\ out' = << >>
  /\ solved' = FALSE
  /\ pre' = << >>
  /\ UNCHANGED << debug, currMeshes, pendingForAdd, emptyFrames, emptyBase,
                  nextId, frames >>

\* one tracker: nothing is logged and no second tracker is built
Next ==
  \/ Bootstrap /\ UNCHANGED rvars
  \/ Align /\ UNCHANGED rvars
  \/ Classify /\ UNCHANGED rvars
  \/ Report /\ UNCHANGED rvars
  \/ AddPending /\ UNCHANGED rvars
  \/ Finish /\ UNCHANGED rvars
  \/ Return /\ UNCHANGED rvars

Spec == Init /\ [][Next]_vars

(***************************************************************************)
(* The same tracker with a solver that breaks its contract: it may answer  *)
(* any list of at most N couples over the padded matrix.                   *)
(***************************************************************************)
AnyCouples(n) ==
  UNION { [1..len -> (0..n - 1) \X (0..n - 1)] : len \in 0..n }

AlignBroken ==
  \E n1 \in 0..MaxNew, rows \in Heights :
    /\ FrameGuard(n1)
    /\ Len(currMeshes) # 0
    /\ \E new \in Detections(n1, nextId) :
         \E sol \in AnyCouples(Len(CostMatrix(currMeshes, new))) :
           AlignBegin(new, maxDisplacement(rows), sol)

NextBroken ==
  \/ Bootstrap /\ UNCHANGED rvars
  \/ AlignBroken /\ UNCHANGED rvars
  \/ Classify /\ UNCHANGED rvars
  \/ Report /\ UNCHANGED rvars
  \/ AddPending /\ UNCHANGED rvars
  \/ Finish /\ UNCHANGED rvars
  \/ Return /\ UNCHANGED rvars

SpecBroken == Init /\ [][NextBroken]_vars

(***************************************************************************)
(* Two trackers on the same frames.  A second MotionTracker, constructed   *)
(* with the other debug flag, is fed every frame right after the first     *)
(* one: the same meshes and the same answer of the solver (the solver is   *)
(* deterministic for identical input), the frame height and with it        *)
(* maxDist free again.  The variables of the tracker hold the tracker at   *)
(* work; Swap puts it to rest in other and brings the other one in.        *)
(***************************************************************************)
ReplayFrames == MaxFrames - 1

LogEntry ==
  [new |-> newMeshes, md |-> maxDist, solved |-> solved, m |-> m,
   sol |-> match, after |-> currMeshes,
   counts |-> << nUpdated, nAbsentOld, nFreshNew >>, out |-> out]

\* the first tracker has finished a frame: the second one takes it; the
\* second one has finished it: the first one goes on
Swap ==
  /\ pc = "idle"
  /\ IF pass = 1 THEN log # << >> ELSE log = << >>
  /\ pass' = 3 - pass
  /\ debug' = ~debug
  /\ currMeshes' = other.currMeshes
  /\ absentRun' = other.absentRun
  /\ emptyFrames' = other.emptyFrames
  /\ emptyBase' = other.emptyBase
  /\ other' = [currMeshes |-> currMeshes, absentRun |-> absentRun,
               emptyFrames |-> emptyFrames, emptyBase |-> emptyBase]
  /\ nextId' = IF pass = 1 THEN nextId - Len(log[1].new) ELSE nextId
  /\ frames' = IF pass = 1 THEN frames - 1 ELSE frames
  /\ UNCHANGED << pc, newMeshes, maxDist, N0, m, match, k, nFreshNew,
                  nAbsentOld, nUpdated, pendingForAdd, out, solved, pre, log >>

NextReplay ==
  \/ pass = 1 /\ log = << >> /\ frames < ReplayFrames /\ Bootstrap
       /\ UNCHANGED rvars
  \/ pass = 1 /\ log = << >> /\ frames < ReplayFrames /\ Align
       /\ UNCHANGED rvars
  \/ Classify /\ UNCHANGED rvars
  \/ Report /\ UNCHANGED rvars
  \/ AddPending /\ UNCHANGED rvars
  \/ Finish /\ UNCHANGED rvars
  \/ pass = 1 /\ Return /\ log' = << LogEntry >> /\ UNCHANGED << pass, other >>
  \/ Swap
  \/ pass = 2 /\ log # << >> /\ Bootstrap /\ newMeshes' = log[1].new
       /\ UNCHANGED rvars
  \/ pass = 2 /\ log # << >> /\ pc = "idle" /\ Len(currMeshes) # 0
       /\ \E rows \in Heights :
            AlignBegin(log[1].new, maxDisplacement(rows), log[1].sol)
       /\ UNCHANGED rvars
  \/ pass = 2 /\ Return /\ log' = << >> /\ UNCHANGED << pass, other >>

SpecReplay == Init /\ [][NextReplay]_vars

(***************************************************************************)
(* Vocabulary of the properties.  A call is over when pc = "return": the   *)
(* registry is final and the call's inputs are still in scope.             *)
(***************************************************************************)
N1 == Len(newMeshes)

Reconciled == pc = "return" /\ solved

SameGeometry(a, b) == a.points = b.points /\ a.centroid = b.centroid

\* entry i now carries the geometry of new mesh j, counter reset
UpdatedBy(i, j) ==
  /\ SameGeometry(currMeshes[i], newMeshes[j])
  /\ currMeshes[i].lengthOfAbsence = 0

IsUpdated(i) == \E j \in 1..N1 : UpdatedBy(i, j)

\* entry i kept its geometry and its counter went up by one
IsAged(i) ==
  /\ SameGeometry(currMeshes[i], pre[i])
  /\ currMeshes[i].lengthOfAbsence = pre[i].lengthOfAbsence + 1

\* new mesh j is an entry behind the original ones, counter 0
IsAppended(j) ==
  \E i \in Len(pre) + 1..Len(currMeshes) :
    /\ SameGeometry(currMeshes[i], newMeshes[j])
    /\ currMeshes[i].lengthOfAbsence = 0

Holders(j) ==
  { i \in 1..Len(currMeshes) : currMeshes[i].points = newMeshes[j].points }

IsPerfectMatching(s, n) ==
  /\ Len(s) = n
  /\ \A r \in 0..n - 1 : \E j \in 1..n : s[j][1] = r
  /\ \A c \in 0..n - 1 : \E j \in 1..n : s[j][2] = c

\* C1: after a call on a non-empty registry every original entry is either
\* updated by a new mesh or aged by one, never both and never neither, and
\* every new mesh sits in exactly one entry: one it updated or one appended.
C1_Partition ==
  (Reconciled /\ IsPerfectMatching(match, max(Len(pre), N1))) =>
    /\ Len(currMeshes) >= Len(pre)
    /\ \A i \in 1..Len(pre) : IsUpdated(i) # IsAged(i)
    /\ \A j \in 1..N1 :
         /\ Cardinality(Holders(j)) = 1
         /\ \A i \in Holders(j) :
              IF i <= Len(pre) THEN UpdatedBy(i, j) /\ ~IsAppended(j)
              ELSE IsAppended(j)
    /\ \A i \in Len(pre) + 1..Len(currMeshes) :
         \E j \in 1..N1 : i \in Holders(j)

C1_Witness ==
  Reconciled /\ nUpdated >= 1 /\ nAbsentOld >= 1

\* C2: a call on an empty registry invokes no solver and leaves exactly the
\* new meshes, in their order, each with lengthOfAbsence 0.
C2_Bootstrap ==
  (pc = "return" /\ Len(pre) = 0) =>
    /\ ~solved
    /\ match = << >>
    /\ Len(currMeshes) = N1
    /\ \A i \in 1..N1 :
         /\ SameGeometry(currMeshes[i], newMeshes[i])
         /\ currMeshes[i].lengthOfAbsence = 0

C2_Witness ==
  pc = "return" /\ ~solved /\ Len(currMeshes) = 2

\* C3: after k calls in a row without any new mesh, on a registry that was
\* not empty, every entry's lengthOfAbsence is k higher, its geometry is the
\* same and the registry has the same size.
C3_AbsenceAccumulation ==
  (pc \in {"return", "idle"} /\ emptyFrames > 0) =>
    /\ Len(emptyBase) > 0
    /\ Len(currMeshes) = Len(emptyBase)
    /\ \A i \in 1..Len(emptyBase) :
         /\ SameGeometry(currMeshes[i], emptyBase[i])
         /\ currMeshes[i].lengthOfAbsence =
              emptyBase[i].lengthOfAbsence + emptyFrames

C3_Witness ==
  pc = "return" /\ emptyFrames = 2 /\ Len(currMeshes) = 2

\* C4: with more old entries than new meshes (and at least one new mesh),
\* exactly N1 entries are updated, each of the other N0 - N1 is aged by
\* exactly one, and the registry keeps its size.
C4_MoreOldThanNew ==
  (Reconciled /\ Len(pre) > N1 /\ N1 >= 1) =>
    /\ Len(currMeshes) = Len(pre)
    /\ Cardinality({ i \in 1..Len(pre) : IsUpdated(i) }) = N1
    /\ Cardinality({ i \in 1..Len(pre) : IsAged(i) }) = Len(pre) - N1
    /\ \A i \in 1..Len(pre) : ~IsUpdated(i) => IsAged(i)

C4_Witness ==
  Reconciled /\ Len(pre) = 2 /\ N1 = 1 /\ currMeshes[2].lengthOfAbsence = 1

\* C5: with one old entry and at least two new meshes, the entry is updated
\* by a new mesh nearest to it, every other new mesh is appended with
\* lengthOfAbsence 0, and the registry ends with N1 entries.
C5_MoreNewThanOld ==
  (Reconciled /\ Len(pre) = 1 /\ N1 >= 2) =>
    /\ Len(currMeshes) = N1
    /\ \E j \in 1..N1 :
         /\ UpdatedBy(1, j)
         /\ \A j2 \in 1..N1 :
              _dist(pre[1].centroid, newMeshes[j].centroid)
                <= _dist(pre[1].centroid, newMeshes[j2].centroid)
         /\ \A j2 \in 1..N1 \ {j} : IsAppended(j2)

C5_Witness ==
  /\ Reconciled /\ Len(pre) = 1 /\ N1 = 2
  /\ newMeshes[1].centroid # newMeshes[2].centroid
  /\ Len(currMeshes) = 2

SameCentroids ==
  /\ N1 = Len(pre)
  /\ \A i \in 1..N1 : newMeshes[i].centroid = pre[i].centroid

DistinctCentroids ==
  \A i, j \in 1..Len(pre) : pre[i].centroid = pre[j].centroid => i = j

\* C6 as stated: when the new centroids equal the registry's, entry i is
\* updated by new mesh i, also when two entries share a centroid.
C6_AsStated ==
  (Reconciled /\ SameCentroids) =>
    /\ Len(currMeshes) = Len(pre)
    /\ \A i \in 1..Len(pre) : UpdatedBy(i, i)

\* C6 as amended: when the new centroids equal the registry's, every entry
\* is updated by a new mesh with the entry's own centroid (by new mesh i
\* itself when the registry's centroids are pairwise distinct), no entry is
\* aged and the registry keeps its size.
C6_ZeroDisplacement ==
  (Reconciled /\ SameCentroids) =>
    /\ Len(currMeshes) = Len(pre)
    /\ \A i \in 1..Len(pre) :
         /\ ~IsAged(i)
         /\ currMeshes[i].centroid = pre[i].centroid
         /\ \E j \in 1..N1 : UpdatedBy(i, j)
         /\ DistinctCentroids => UpdatedBy(i, i)

C6_Witness ==
  /\ Reconciled /\ SameCentroids /\ Len(pre) = 2
  /\ pre[1].centroid # pre[2].centroid
  /\ nUpdated = 2

RealToPad == { j \in 1..Len(match) : match[j][1] < N0 /\ match[j][2] >= N1 }
PadToReal == { j \in 1..Len(match) : match[j][1] >= N0 /\ match[j][2] < N1 }
RealToReal == { j \in 1..Len(match) : match[j][1] < N0 /\ match[j][2] < N1 }

\* C7: the solver's answer never holds both a real row paired with a padding
\* column and a padding row paired with a real column; it holds exactly
\* min(N0, N1) real couples, and no call both ages an entry and appends one.
C7_SentinelDominance ==
  solved =>
    /\ RealToPad = {} \/ PadToReal = {}
    /\ Cardinality(RealToReal) = min(N0, N1)
    /\ pc = "return" =>
         /\ nUpdated = min(N0, N1)
         /\ nAbsentOld = 0 \/ nFreshNew = 0
         /\ Len(currMeshes) = Len(pre) \/ \A i \in 1..Len(pre) : ~IsAged(i)

C7_Witness ==
  solved /\ pc = "classify" /\ k = 1 /\ Len(match) = 2 /\ N1 = 1

\* C8: when the solver's answer is no perfect matching of the padded matrix,
\* the call leaves the registry as it found it.
C8_BrokenSolverNoEffect ==
  (Reconciled /\ ~IsPerfectMatching(match, Len(m))) => currMeshes = pre

\* C9: between calls every entry's lengthOfAbsence is the number of calls in
\* a row that left it unmatched since it was matched or added, and it is 0
\* right after the call that matched or added it.
C9_AbsenceCounter ==
  /\ pc = "idle" =>
       /\ Len(absentRun) = Len(currMeshes)
       /\ \A i \in 1..Len(currMeshes) :
            /\ currMeshes[i].lengthOfAbsence \in Nat
            /\ currMeshes[i].lengthOfAbsence = absentRun[i]
  /\ pc = "return" =>
       \A i \in 1..Len(currMeshes) :
         (i > Len(pre) \/ Matched(i)) => currMeshes[i].lengthOfAbsence = 0

C9_Witness ==
  /\ pc = "return"
  /\ \E i \in 1..Len(pre) :
       pre[i].lengthOfAbsence >= 1 /\ currMeshes[i].lengthOfAbsence = 0

\* the couple of the solver's answer that holds row i - 1
CoupleOfRow(i) == match[CHOOSE j \in 1..Len(match) : match[j][1] = i - 1]

ExpectedEntry(i) ==
  LET c == CoupleOfRow(i)[2]
  IN  IF c < N1
        THEN [points |-> newMeshes[c + 1].points,
              centroid |-> newMeshes[c + 1].centroid,
              lengthOfAbsence |-> 0]
        ELSE [points |-> pre[i].points,
              centroid |-> pre[i].centroid,
              lengthOfAbsence |-> pre[i].lengthOfAbsence + 1]

IsNewCouple(c) == c[1] >= Len(pre) /\ c[2] < N1

ExpectedAppended ==
  LET cs == SelectSeq(match, IsNewCouple)
  IN  [j \in 1..Len(cs) |-> newMeshes[cs[j][2] + 1]]

ExpectedRegistry ==
  [i \in 1..Len(pre) |-> ExpectedEntry(i)] \o ExpectedAppended

\* C10: the outcome of a call is a function of the registry, the new meshes
\* and the solver's answer alone: the registry it leaves (the order of the
\* appended entries included) and its three counts are the ones these
\* three determine.
C10_Determinism ==
  /\ (pc = "return" /\ ~solved) => currMeshes = newMeshes
  /\ Reconciled =>
       /\ currMeshes = ExpectedRegistry
       /\ nUpdated = Cardinality(RealToReal)
       /\ nAbsentOld = Cardinality(RealToPad)
       /\ nFreshNew = Cardinality(PadToReal)

C10_Witness ==
  Reconciled /\ nFreshNew >= 1 /\ nUpdated >= 1 /\ debug

\* the second tracker has finished the frame the first one logged
Replayed == pass = 2 /\ pc = "return" /\ log # << >>

\* C11: a tracker built with the other debug flag and fed the same frames
\* makes the same solver calls (none on an empty registry, else the same
\* matrix) and holds the same registry after every frame, with the same
\* counts; only the lines written differ, and a tracker with debug off
\* writes none.
C11_DebugIsReportingOnly ==
  /\ ~debug => out = << >>
  /\ (pass = 2 /\ pc = "idle" /\ log # << >>) =>
       /\ log[1].solved = (Len(currMeshes) # 0)
       /\ log[1].solved =>
            CostMatrix(currMeshes, log[1].new) = log[1].m
  /\ Replayed =>
       /\ solved = log[1].solved
       /\ m = log[1].m
       /\ match = log[1].sol
       /\ currMeshes = log[1].after
       /\ << nUpdated, nAbsentOld, nFreshNew >> = log[1].counts
       /\ out # log[1].out
       /\ IF debug THEN log[1].out = << >> ELSE out = << >>
  /\ (pc = "idle" /\ log = << >>) => currMeshes = other.currMeshes

C11_Witness ==
  Replayed /\ solved /\ nUpdated >= 1 /\ nAbsentOld >= 1 /\ debug

\* the couples of the call's matching that pair a real old entry with a real
\* new mesh lying further away than the bound b
TooFar(b) ==
  { c \in 1..Len(match) :
      /\ match[c][1] < Len(pre)
      /\ match[c][2] < N1
      /\ at(m, match[c][1], match[c][2]) > b }

\* C12: the bound is not applied.  A real old entry the solver paired with a
\* real new mesh is updated by it even when their distance exceeds maxDist,
\* and a tracker fed the same frame with another maxDist classifies the
\* same way and ends with the same registry.
C12_BoundNotApplied ==
  /\ (pc = "return" /\ solved) =>
       \A c \in TooFar(maxDist) :
         UpdatedBy(match[c][1] + 1, match[c][2] + 1)
  /\ (Replayed /\ maxDist # log[1].md) =>
       /\ currMeshes = log[1].after
       /\ << nUpdated, nAbsentOld, nFreshNew >> = log[1].counts

\* the two trackers got bounds on either side of a matched couple's distance
C12_Witness ==
  /\ Replayed
  /\ solved
  /\ maxDist < log[1].md
  /\ TooFar(maxDist) \ TooFar(log[1].md) # {}

\* C13: the matrix handed to the solver is square of side max(N0, N1); the
\* cell at row i, column j holds the distance between the centroids of
\* registry entry i and new mesh j when i < N0 and j < N1, and the sentinel
\* FLT_MAX otherwise.  Checked where the solver has just returned: the
\* matrix is not written afterwards.
C13_CostMatrix ==
  (pc = "classify" /\ k = 1) =>
    LET n == max(Len(pre), N1)
    IN  /\ Len(m) = n
        /\ \A i \in 0..n - 1 :
             /\ Len(m[i + 1]) = n
             /\ \A j \in 0..n - 1 :
                  at(m, i, j) =
                    IF i < Len(pre) /\ j < N1
                      THEN _dist(pre[i + 1].centroid, newMeshes[j + 1].centroid)
                      ELSE FLT_MAX

\* two old entries and one new mesh, at different distances from them
C13_Witness ==
  /\ pc = "classify"
  /\ k = 1
  /\ Len(pre) = 2
  /\ N1 = 1
  /\ at(m, 0, 0) # at(m, 1, 0)
  /\ at(m, 1, 0) < FLT_MAX
  /\ at(m, 0, 1) = FLT_MAX

\* entry i of the registry is the same object after the step: untouched, or,
\* while the couples are classified, aged or overwritten by a new mesh
StaysInPlace(i) ==
  /\ i \in DOMAIN currMeshes'
  /\ \/ currMeshes'[i] = currMeshes[i]
     \/ /\ pc = "classify"
        /\ \/ currMeshes'[i] = [currMeshes[i] EXCEPT !.lengthOfAbsence = @ + 1]
           \/ \E j \in 1..N1 :
                /\ SameGeometry(currMeshes'[i], newMeshes[j])
                /\ currMeshes'[i].lengthOfAbsence = 0

\* entry i is new in the step: a new mesh put behind every existing entry,
\* by the clone of an empty registry or by the loop over the pending ones
PutBehind(i) ==
  /\ i > Len(currMeshes)
  /\ pc \in {"idle", "add"}
  /\ \E j \in 1..Len(newMeshes') :
       /\ SameGeometry(currMeshes'[i], newMeshes'[j])
       /\ currMeshes'[i].lengthOfAbsence = 0

\* C14: in every step every entry of the registry stays at its index, where
\* it is untouched, aged (only lengthOfAbsence changes) or updated in place
\* by a match; entries that appear are new meshes behind all existing ones.
C14_IdentityByPosition ==
  [][ /\ \A i \in DOMAIN currMeshes : StaysInPlace(i)
      /\ \A i \in DOMAIN currMeshes' \ DOMAIN currMeshes : PutBehind(i) ]_vars

\* an entry aged in an earlier frame is updated at index 1 in a call that
\* also appends a new mesh behind it
C14_Witness ==
  /\ Reconciled
  /\ Len(currMeshes) > Len(pre)
  /\ pre[1].lengthOfAbsence >= 1
  /\ IsUpdated(1)
  /\ IsAppended(N1) \/ IsAppended(1)

\* C15: no step makes the registry shorter; a call on a non-empty registry
\* leaves max(N0, N1) entries; an entry left without a new mesh is still
\* there afterwards with its counter one higher, whatever the counter was.
C15_NoEviction ==
  /\ [][Len(currMeshes') >= Len(currMeshes)]_vars
  /\ [](Reconciled =>
          /\ Len(currMeshes) = max(Len(pre), N1)
          /\ \A i \in 1..Len(pre) :
               ~Matched(i) =>
                 /\ currMeshes[i].points = pre[i].points
                 /\ currMeshes[i].lengthOfAbsence = pre[i].lengthOfAbsence + 1)

\* an entry absent in every frame since it was cloned is still tracked
C15_Witness ==
  /\ Reconciled
  /\ frames = MaxFrames
  /\ \E i \in 1..Len(currMeshes) : currMeshes[i].lengthOfAbsence = MaxFrames - 1

\* the columns of the couples among the first n of the matching that pair a
\* padding row with a real new mesh, in the solver's order
NewColumns(n) ==
  LET cs == SelectSeq(SubSeq(match, 1, n), IsNewCouple)
  IN  [j \in 1..Len(cs) |-> cs[j][2]]

\* the detections appended so far, followed by the ones still queued
AppendedThenPending ==
  [j \in 1..Len(currMeshes) - Len(pre) |-> currMeshes[Len(pre) + j].points]
    \o [j \in 1..Len(pendingForAdd) |-> newMeshes[pendingForAdd[j] + 1].points]

C17_IndexSafety ==
  pc \in {"classify", "add"} =>
    /\ N0 >= 1
    /\ (pc = "classify" /\ k = 1) =>
         \A i0, i1 \in 0..PadSize(N0, N1) - 1 :
           LET b == Branch(i0, i1, N0, N1)
           IN  /\ b \in {"absent", "match"} => i0 < N0
               /\ b \in {"new", "match"} => i1 < N1
    /\ (pc = "classify" /\ k <= Len(match)) =>
         LET b == Branch(match[k][1], match[k][2], N0, N1)
         IN  /\ b \in {"absent", "match"} =>
                  match[k][1] + 1 \in DOMAIN currMeshes
             /\ b \in {"new", "match"} =>
                  match[k][2] + 1 \in DOMAIN newMeshes
    /\ \A j \in DOMAIN pendingForAdd :
         pendingForAdd[j] < N1 /\ pendingForAdd[j] + 1 \in DOMAIN newMeshes

\* a padding row was met: its column is queued, an entry has been updated
C17_Witness ==
  /\ pc = "add"
  /\ N0 < N1
  /\ pendingForAdd # << >>
  /\ nUpdated = N0

\* the meshes delivered by the frames before the one in progress
DeliveredBefore == nextId - 1 - N1

\* C18: a frame takes the clone branch exactly when no earlier frame has
\* delivered a mesh; a clone of zero meshes leaves the registry empty; every
\* other frame goes through the matrix and the solver; and a registry that
\* is non-empty stays non-empty.
C18_BootstrapOnlyWhileEmpty ==
  /\ [](pc = "return" =>
          /\ ~solved <=> DeliveredBefore = 0
          /\ ~solved <=> Len(pre) = 0
          /\ (~solved /\ N1 = 0) => currMeshes = << >>
          /\ solved => m = CostMatrix(pre, newMeshes) /\ Len(match) = Len(m))
  /\ [][Len(currMeshes) > 0 => Len(currMeshes') > 0]_vars

\* an empty frame, then the frame that is cloned, then one for the solver
C18_Witness ==
  /\ Reconciled
  /\ frames = 3
  /\ DeliveredBefore = 1
  /\ pre[1].lengthOfAbsence = 0

====
